---- MODULE Spec2Model ----
(***************************************************************************)
(* Order lifecycle (order_service/main.py) and auth/token manager          *)
(* (user_service/main.py) of brybell-techhub as state machines.            *)
(*                                                                         *)
(* Money: a Float amount is represented by the integer number of halves    *)
(* (price 5.5 is 11, price 10.0 is 20); every amount used is a dyadic      *)
(* rational, so float addition and multiplication are exact on them.       *)
(* Row ids are the positions in the table (ids are handed out densely).    *)
(* Columns that no handler reads back (shipping_address, phone_number,     *)
(* product_name, created_at, updated_at) are left out of the rows.         *)
(***************************************************************************)
EXTENDS Integers, Sequences, FiniteSets, Bags, TLC

VARIABLES orders, order_items, resp, users, now, issued, uresp

\* history of the sessions: the access tokens a Logout was answered 200 for,
\* and the refresh tokens a refresh was answered 200 for
VARIABLES logged_out, rotated

\* the create_order transaction in flight and the reads of a concurrent request
VARIABLES tx, obs

\* the statistics summary last returned
VARIABLES stats

\* the concurrent requests on one order
VARIABLES reqs

\* the concurrent requests of the user service
VARIABLES ureqs

ovars == <<orders, order_items, resp>>
uvars == <<users, now, issued, uresp>>
hvars == <<logged_out, rotated>>
cvars == <<tx, obs>>
\* what the sequential order and user specifications leave alone
xvars == <<logged_out, rotated, tx, obs, reqs, ureqs>>
vars == <<orders, order_items, resp, users, now, issued, uresp, logged_out, rotated,
          tx, obs, stats, reqs, ureqs>>

(* ---------------------------- bounds ----------------------------------- *)
MaxOrders == 2
\* capacity of the order_items table
MaxItemRows == 2
\* number of requests that race on one order
MaxRequests == 3

(* ------------------------ request inputs ------------------------------- *)
\* OrderItemCreate bodies: quantity 2 at 10.0, quantity 1 at 5.5, and a
\* quantity of 0
ItemInputs ==
    { [product_id |-> 1, quantity |-> 2, price |-> 20],
      [product_id |-> 2, quantity |-> 1, price |-> 11] }

ZeroQuantityItem == [product_id |-> 3, quantity |-> 0, price |-> 20]

\* item lists of the requests that exercise the totals
ItemLists ==
    UNION { [1..n -> ItemInputs] : n \in 0..MaxItemRows } \cup { <<ZeroQuantityItem>> }

\* item list of the requests that exercise the status graph
LifecycleItemLists == { <<[product_id |-> 1, quantity |-> 2, price |-> 20]>> }

UserIdInputs == {7}

StatusInputs == {"pending", "processing", "completed", "cancelled", "shipped"}

PaymentStatusInputs == {"paid", "failed"}

\* values uuid4().hex[:12] can take.  The values are opaque and interchangeable,
\* so they are named in order of first use: with k rows stored, 1..k are the
\* values already in the table and k+1 stands for every value not yet used.
TrackingNumbers(k) == 1..(k + 1)

OrderIdInputs == 1..(MaxOrders + 1)

NoResp == [op |-> "none", code |-> 0, order_id |-> 0, arg |-> "-"]

(* ------------------------ helper functions ----------------------------- *)
RECURSIVE SumFrom(_, _)
SumFrom(items, i) ==
    IF i > Len(items) THEN 0
    ELSE items[i].price * items[i].quantity + SumFrom(items, i + 1)

\* mutant: the quantity is left out of the sum
calculate_total_NoQuantity(items) ==
    IF items = <<>> THEN 0 ELSE items[1].price + SumFrom(items, 2)

calculate_total(items) == SumFrom(items, 1)

generate_tracking_number(n) == <<"BRY", n>>

\* db.query(Order).filter(Order.id == order_id).first()
OrderExists(order_id) == order_id \in 1..Len(orders)

ItemsOf(order_id) == SelectSeq(order_items, LAMBDA r : r.order_id = order_id)

RECURSIVE AppendItems(_, _, _, _)
AppendItems(rows, order_id, items, i) ==
    IF i > Len(items) THEN rows
    ELSE AppendItems(Append(rows, [order_id |-> order_id,
                                   product_id |-> items[i].product_id,
                                   quantity |-> items[i].quantity,
                                   price |-> items[i].price]),
                     order_id, items, i + 1)

(* ----------------------------- state ----------------------------------- *)
\* resp is the last request with its outcome: op and order_id and arg are the
\* request (arg is the body's status or payment_status), code the HTTP status.
OrderInit ==
    /\ orders = <<>>
    /\ order_items = <<>>
    /\ resp = NoResp

(* ---------------------------- handlers --------------------------------- *)
\* mutant: the column has no unique constraint
create_order_NoUnique(user_id, items, tn) ==
    /\ Len(orders) < MaxOrders
    /\ Len(order_items) + Len(items) <= MaxItemRows
    /\ LET tracking == generate_tracking_number(tn)
           new_id == Len(orders) + 1
       IN /\ orders' = Append(orders,
                  [user_id |-> user_id,
                   total_amount |-> calculate_total(items),
                   status |-> "pending",
                   payment_status |-> "pending",
                   tracking_number |-> tracking])
          /\ order_items' = AppendItems(order_items, new_id, items, 1)
          /\ resp' = [op |-> "create", code |-> 201, order_id |-> new_id, arg |-> "-"]

\* POST /api/orders
create_order(user_id, items, tn) ==
    /\ Len(orders) < MaxOrders
    /\ Len(order_items) + Len(items) <= MaxItemRows
    /\ LET tracking == generate_tracking_number(tn)
           new_id == Len(orders) + 1
       IN IF \E i \in 1..Len(orders) : orders[i].tracking_number = tracking
          THEN \* unique constraint on tracking_number: flush raises, nothing is committed
               /\ resp' = [op |-> "create", code |-> 500, order_id |-> 0, arg |-> "-"]
               /\ UNCHANGED <<orders, order_items>>
          ELSE /\ orders' = Append(orders,
                       [user_id |-> user_id,
                        total_amount |-> calculate_total(items),
                        status |-> "pending",
                        payment_status |-> "pending",
                        tracking_number |-> tracking])
               /\ order_items' = AppendItems(order_items, new_id, items, 1)
               /\ resp' = [op |-> "create", code |-> 201, order_id |-> new_id, arg |-> "-"]

\* PUT /api/orders/{order_id}/status
update_order_status(order_id, status) ==
    IF ~OrderExists(order_id)
    THEN /\ resp' = [op |-> "status", code |-> 404, order_id |-> order_id, arg |-> status]
         /\ UNCHANGED <<orders, order_items>>
    ELSE /\ orders' = [orders EXCEPT ![order_id].status = status]
         /\ resp' = [op |-> "status", code |-> 200, order_id |-> order_id, arg |-> status]
         /\ UNCHANGED order_items

\* mutant: paid advances the order whatever its status
update_payment_status_AnyStatus(order_id, payment_status) ==
    IF ~OrderExists(order_id)
    THEN /\ resp' = [op |-> "payment", code |-> 404, order_id |-> order_id, arg |-> payment_status]
         /\ UNCHANGED <<orders, order_items>>
    ELSE /\ orders' = [orders EXCEPT
                ![order_id].payment_status = payment_status,
                ![order_id].status = IF payment_status = "paid" THEN "processing" ELSE @]
         /\ resp' = [op |-> "payment", code |-> 200, order_id |-> order_id, arg |-> payment_status]
         /\ UNCHANGED order_items

\* PUT /api/orders/{order_id}/payment-status
update_payment_status(order_id, payment_status) ==
    IF ~OrderExists(order_id)
    THEN /\ resp' = [op |-> "payment", code |-> 404, order_id |-> order_id, arg |-> payment_status]
         /\ UNCHANGED <<orders, order_items>>
    ELSE /\ orders' = [orders EXCEPT
                ![order_id].payment_status = payment_status,
                ![order_id].status =
                    IF payment_status = "paid" /\ orders[order_id].status = "pending"
                    THEN "processing" ELSE @]
         /\ resp' = [op |-> "payment", code |-> 200, order_id |-> order_id, arg |-> payment_status]
         /\ UNCHANGED order_items

\* mutant: the status guard is missing
cancel_order_NoGuard(order_id) ==
    IF ~OrderExists(order_id)
    THEN /\ resp' = [op |-> "cancel", code |-> 404, order_id |-> order_id, arg |-> "-"]
         /\ UNCHANGED <<orders, order_items>>
    ELSE /\ orders' = [orders EXCEPT ![order_id].status = "cancelled"]
         /\ resp' = [op |-> "cancel", code |-> 200, order_id |-> order_id, arg |-> "-"]
         /\ UNCHANGED order_items

\* DELETE /api/orders/{order_id}
cancel_order(order_id) ==
    IF ~OrderExists(order_id)
    THEN /\ resp' = [op |-> "cancel", code |-> 404, order_id |-> order_id, arg |-> "-"]
         /\ UNCHANGED <<orders, order_items>>
    ELSE IF orders[order_id].status \notin {"pending", "processing"}
    THEN /\ resp' = [op |-> "cancel", code |-> 400, order_id |-> order_id, arg |-> "-"]
         /\ UNCHANGED <<orders, order_items>>
    ELSE /\ orders' = [orders EXCEPT ![order_id].status = "cancelled"]
         /\ resp' = [op |-> "cancel", code |-> 200, order_id |-> order_id, arg |-> "-"]
         /\ UNCHANGED order_items

CreateOrder(lists) ==
    \E u \in UserIdInputs, items \in lists, tn \in TrackingNumbers(Len(orders)) :
        create_order(u, items, tn)

UpdateStatus(statuses) ==
    \E id \in OrderIdInputs, s \in statuses : update_order_status(id, s)

UpdatePaymentStatus(payment_statuses) ==
    \E id \in OrderIdInputs, p \in payment_statuses : update_payment_status(id, p)

CancelOrder ==
    \E id \in OrderIdInputs : cancel_order(id)

\* every status and payment status, on orders of one item
LifecycleNext ==
    \/ CreateOrder(LifecycleItemLists)
    \/ UpdateStatus(StatusInputs)
    \/ UpdatePaymentStatus(PaymentStatusInputs)
    \/ CancelOrder

\* every item list, with one value for each status update
TotalsNext ==
    \/ CreateOrder(ItemLists)
    \/ UpdateStatus({"completed"})
    \/ UpdatePaymentStatus({"paid"})
    \/ CancelOrder

\* GET /api/orders/track/{tracking_number}: .first() returns one of the rows
\* that match
track_order(tn) ==
    LET found == { i \in 1..Len(orders) :
                      orders[i].tracking_number = generate_tracking_number(tn) }
    IN /\ IF found = {}
          THEN resp' = [op |-> "track", code |-> 404, order_id |-> 0, arg |-> "-"]
          ELSE \E i \in found :
                  resp' = [op |-> "track", code |-> 200, order_id |-> i, arg |-> "-"]
       /\ UNCHANGED <<orders, order_items>>

TrackOrder == \E tn \in TrackingNumbers(Len(orders)) : track_order(tn)

\* the status graph on orders of one item, and the lookups by tracking number
TrackingNext ==
    \/ LifecycleNext
    \/ TrackOrder

(* ------------------------ order statistics ----------------------------- *)
\* stats is the body of the last response when it was the statistics summary
NoStats ==
    [total_orders |-> -1, pending_orders |-> -1, processing_orders |-> -1,
     completed_orders |-> -1, total_revenue |-> -1]

StatsInit == stats = NoStats

\* db.query(Order).filter(Order.status == status).count()
CountStatus(status) == Len(SelectSeq(orders, LAMBDA o : o.status = status))

RECURSIVE SumAmounts(_)
SumAmounts(amounts) ==
    IF amounts = <<>> THEN 0 ELSE Head(amounts) + SumAmounts(Tail(amounts))

\* mutant: the revenue leaves out the cancelled orders
get_order_stats_SkipCancelled ==
    LET paid == SelectSeq(orders, LAMBDA o : o.payment_status = "paid"
                                              /\ o.status # "cancelled")
        total_revenue == [i \in 1..Len(paid) |-> paid[i].total_amount]
        revenue_sum == IF total_revenue # <<>> THEN SumAmounts(total_revenue) ELSE 0
    IN /\ stats' = [total_orders |-> Len(orders),
                    pending_orders |-> CountStatus("pending"),
                    processing_orders |-> CountStatus("processing"),
                    completed_orders |-> CountStatus("completed"),
                    total_revenue |-> revenue_sum]
       /\ resp' = [op |-> "stats", code |-> 200, order_id |-> 0, arg |-> "-"]
       /\ UNCHANGED <<orders, order_items>>

\* GET /api/orders/stats/summary
get_order_stats ==
    LET paid == SelectSeq(orders, LAMBDA o : o.payment_status = "paid")
        total_revenue == [i \in 1..Len(paid) |-> paid[i].total_amount]
        revenue_sum == IF total_revenue # <<>> THEN SumAmounts(total_revenue) ELSE 0
    IN /\ stats' = [total_orders |-> Len(orders),
                    pending_orders |-> CountStatus("pending"),
                    processing_orders |-> CountStatus("processing"),
                    completed_orders |-> CountStatus("completed"),
                    total_revenue |-> revenue_sum]
       /\ resp' = [op |-> "stats", code |-> 200, order_id |-> 0, arg |-> "-"]
       /\ UNCHANGED <<orders, order_items>>

\* the requests that exercise the totals, and the summary
StatsNext ==
    \/ TotalsNext /\ stats' = NoStats
    \/ get_order_stats

(* ============ order service: create_order step by step ================= *)
\* The session of a request runs one transaction (autocommit=False): the rows
\* it has sent to the store stay in tx until the commit, and the other
\* sessions read the committed tables orders and order_items only.
\* tx.pc: "idle" no request yet, "flushed" between db.flush() and db.commit(),
\* "committed", "rolled_back".  base_orders and base_items are the sizes of
\* the committed tables when the request began.
NoTx ==
    [pc |-> "idle", order |-> <<>>, items |-> <<>>, todo |-> <<>>, new_id |-> 0,
     base_orders |-> 0, base_items |-> 0]

\* obs is what the request of a reader has been returned by its queries so
\* far: rows holds <<id, order row>> pairs, items the item rows loaded for them
NoObs ==
    [op |-> "none", pc |-> "idle", rows |-> <<>>, items |-> <<>>, total_orders |-> 0,
     pending_orders |-> 0]

TxInit ==
    /\ tx = NoTx
    /\ obs = NoObs

\* item lists of the requests that are followed statement by statement
TxItemLists == UNION { [1..n -> ItemInputs] : n \in 0..MaxItemRows }

\* mutant: the flushed order row is visible to the other sessions at once
create_order_flush_Autocommit(user_id, items, tn) ==
    /\ tx.pc # "flushed"
    /\ Len(orders) < MaxOrders
    /\ Len(order_items) + Len(items) <= MaxItemRows
    /\ LET tracking == generate_tracking_number(tn)
           new_id == Len(orders) + 1
       IN IF \E i \in 1..Len(orders) : orders[i].tracking_number = tracking
          THEN /\ tx' = [NoTx EXCEPT !.pc = "rolled_back",
                            !.base_orders = Len(orders), !.base_items = Len(order_items)]
               /\ resp' = [op |-> "create", code |-> 500, order_id |-> 0, arg |-> "-"]
               /\ UNCHANGED <<orders, order_items>>
          ELSE /\ tx' = [pc |-> "flushed",
                         order |-> <<>>,
                         items |-> <<>>, todo |-> items, new_id |-> new_id,
                         base_orders |-> Len(orders), base_items |-> Len(order_items)]
               /\ orders' = Append(orders,
                                [user_id |-> user_id,
                                 total_amount |-> calculate_total(items),
                                 status |-> "pending",
                                 payment_status |-> "pending",
                                 tracking_number |-> tracking])
               /\ UNCHANGED <<order_items, resp>>

\* create_order up to db.flush(): the order row is inserted in the transaction
create_order_flush(user_id, items, tn) ==
    /\ tx.pc # "flushed"
    /\ Len(orders) < MaxOrders
    /\ Len(order_items) + Len(items) <= MaxItemRows
    /\ LET tracking == generate_tracking_number(tn)
           new_id == Len(orders) + 1
       IN IF \E i \in 1..Len(orders) : orders[i].tracking_number = tracking
          THEN \* unique constraint on tracking_number: flush raises, the session is closed
               /\ tx' = [NoTx EXCEPT !.pc = "rolled_back",
                            !.base_orders = Len(orders), !.base_items = Len(order_items)]
               /\ resp' = [op |-> "create", code |-> 500, order_id |-> 0, arg |-> "-"]
               /\ UNCHANGED <<orders, order_items>>
          ELSE /\ tx' = [pc |-> "flushed",
                         order |-> << [user_id |-> user_id,
                                       total_amount |-> calculate_total(items),
                                       status |-> "pending",
                                       payment_status |-> "pending",
                                       tracking_number |-> tracking] >>,
                         items |-> <<>>, todo |-> items, new_id |-> new_id,
                         base_orders |-> Len(orders), base_items |-> Len(order_items)]
               /\ UNCHANGED <<orders, order_items, resp>>

\* one INSERT of an order_items row, sent when db.commit() flushes the session
create_order_insert_item ==
    /\ tx.pc = "flushed"
    /\ tx.todo # <<>>
    /\ tx' = [tx EXCEPT !.items = AppendItems(@, tx.new_id, <<Head(tx.todo)>>, 1),
                        !.todo = Tail(@)]
    /\ UNCHANGED <<orders, order_items, resp>>

\* the COMMIT of db.commit(): the rows of the transaction become visible together
create_order_commit ==
    /\ tx.pc = "flushed"
    /\ tx.todo = <<>>
    /\ orders' = orders \o tx.order
    /\ order_items' = order_items \o tx.items
    /\ tx' = [tx EXCEPT !.pc = "committed", !.order = <<>>, !.items = <<>>]
    /\ resp' = [op |-> "create", code |-> 201, order_id |-> tx.new_id, arg |-> "-"]

\* a statement after the flush raises: get_db closes the session, which rolls
\* the transaction back
create_order_fail ==
    /\ tx.pc = "flushed"
    /\ tx' = [tx EXCEPT !.pc = "rolled_back", !.order = <<>>, !.items = <<>>, !.todo = <<>>]
    /\ resp' = [op |-> "create", code |-> 500, order_id |-> 0, arg |-> "-"]
    /\ UNCHANGED <<orders, order_items>>

(* readers: each query is a statement that sees what is committed when it runs *)
\* GET /api/orders/{order_id}: the query of the order row
get_order_query(order_id) ==
    /\ obs.pc # "rows"
    /\ obs' = [NoObs EXCEPT !.op = "get",
                  !.pc = IF OrderExists(order_id) THEN "rows" ELSE "done",
                  !.rows = IF OrderExists(order_id)
                           THEN << <<order_id, orders[order_id]>> >> ELSE <<>>]

\* GET /api/orders/track/{tracking_number}: the query of the order row
track_order_query(tn) ==
    LET found == { i \in 1..Len(orders) :
                      orders[i].tracking_number = generate_tracking_number(tn) }
        first == CHOOSE i \in found : \A j \in found : i <= j
    IN /\ obs.pc # "rows"
       /\ obs' = [NoObs EXCEPT !.op = "track",
                     !.pc = IF found # {} THEN "rows" ELSE "done",
                     !.rows = IF found # {} THEN << <<first, orders[first]>> >> ELSE <<>>]

\* GET /api/orders/admin/all: the query of the order rows
get_all_orders_query ==
    /\ obs.pc # "rows"
    /\ obs' = [NoObs EXCEPT !.op = "list",
                  !.pc = IF orders # <<>> THEN "rows" ELSE "done",
                  !.rows = [i \in 1..Len(orders) |-> <<i, orders[i]>>]]

\* OrderResponse.from_orm reads order.items: the item rows of the orders
\* returned are loaded by a later statement
load_items ==
    /\ obs.pc = "rows"
    /\ obs.op \in {"get", "track", "list"}
    /\ obs' = [obs EXCEPT !.pc = "done",
                  !.items = SelectSeq(order_items,
                               LAMBDA r : \E k \in 1..Len(obs.rows) :
                                             obs.rows[k][1] = r.order_id)]

\* GET /api/orders/stats/summary: the first count
get_order_stats_count ==
    /\ obs.pc # "rows"
    /\ obs' = [NoObs EXCEPT !.op = "stats", !.pc = "rows", !.total_orders = Len(orders)]

\* the later counts of the summary; a new order is pending and unpaid, so only
\* the count of the pending orders can differ from the first statement's view
get_order_stats_rest ==
    /\ obs.pc = "rows"
    /\ obs.op = "stats"
    /\ obs' = [obs EXCEPT !.pc = "done",
                  !.pending_orders =
                      Cardinality({ i \in 1..Len(orders) : orders[i].status = "pending" })]

CreateOrderFlush ==
    \E u \in UserIdInputs, items \in TxItemLists, tn \in TrackingNumbers(Len(orders)) :
        create_order_flush(u, items, tn)

Readers ==
    /\ \/ \E id \in OrderIdInputs : get_order_query(id)
       \/ \E tn \in TrackingNumbers(Len(orders)) : track_order_query(tn)
       \/ get_all_orders_query
       \/ load_items
       \/ get_order_stats_count
       \/ get_order_stats_rest
    /\ UNCHANGED <<orders, order_items, resp, tx>>

TxNext ==
    \/ CreateOrderFlush /\ UNCHANGED obs
    \/ create_order_insert_item /\ UNCHANGED obs
    \/ create_order_commit /\ UNCHANGED obs
    \/ create_order_fail /\ UNCHANGED obs
    \/ Readers

(* ========== order service: concurrent requests on one order ============ *)
\* Each request has its own session: it loads the order row, decides from the
\* attributes it loaded, and its db.commit() sends an UPDATE of the attributes
\* whose value it changed; nothing locks the row between the two statements.
\* reqs holds the requests in the order in which they loaded the row: pc is
\* "read" between the query and the commit and "done" after it, status and
\* payment_status are the attributes as loaded, code is the HTTP status.
RaceOrderId == 1

RaceStatusInputs == {"completed"}

RaceRequests ==
    { [op |-> "cancel", arg |-> "-"], [op |-> "payment", arg |-> "paid"] }
        \cup { [op |-> "status", arg |-> s] : s \in RaceStatusInputs }

RaceInit == reqs = <<>>

\* db.query(Order).filter(Order.id == order_id).first()
read_order(request) ==
    /\ Len(reqs) < MaxRequests
    /\ OrderExists(RaceOrderId)
    /\ reqs' = Append(reqs, [op |-> request.op, arg |-> request.arg, pc |-> "read",
                             status |-> orders[RaceOrderId].status,
                             payment_status |-> orders[RaceOrderId].payment_status,
                             code |-> 0])
    /\ UNCHANGED <<orders, order_items, resp>>

\* mutant: the row is read again under a lock before the status is written
cancel_order_commit_Locked(r) ==
    /\ reqs[r].pc = "read" /\ reqs[r].op = "cancel"
    /\ IF orders[RaceOrderId].status \notin {"pending", "processing"}
       THEN /\ reqs' = [reqs EXCEPT ![r].pc = "done", ![r].code = 400]
            /\ resp' = [op |-> "cancel", code |-> 400, order_id |-> RaceOrderId, arg |-> "-"]
            /\ UNCHANGED <<orders, order_items>>
       ELSE /\ orders' = [orders EXCEPT ![RaceOrderId].status = "cancelled"]
            /\ reqs' = [reqs EXCEPT ![r].pc = "done", ![r].code = 200]
            /\ resp' = [op |-> "cancel", code |-> 200, order_id |-> RaceOrderId, arg |-> "-"]
            /\ UNCHANGED order_items

\* cancel_order after the query: the guard on the loaded status, then the commit
cancel_order_commit(r) ==
    /\ reqs[r].pc = "read" /\ reqs[r].op = "cancel"
    /\ IF reqs[r].status \notin {"pending", "processing"}
       THEN /\ reqs' = [reqs EXCEPT ![r].pc = "done", ![r].code = 400]
            /\ resp' = [op |-> "cancel", code |-> 400, order_id |-> RaceOrderId, arg |-> "-"]
            /\ UNCHANGED <<orders, order_items>>
       ELSE /\ orders' = [orders EXCEPT ![RaceOrderId].status = "cancelled"]
            /\ reqs' = [reqs EXCEPT ![r].pc = "done", ![r].code = 200]
            /\ resp' = [op |-> "cancel", code |-> 200, order_id |-> RaceOrderId, arg |-> "-"]
            /\ UNCHANGED order_items

\* update_payment_status after the query: payment_status is written when it
\* differs from the loaded value, status when the loaded status was pending
update_payment_status_commit(r) ==
    /\ reqs[r].pc = "read" /\ reqs[r].op = "payment"
    /\ orders' = [orders EXCEPT
            ![RaceOrderId].payment_status =
                IF reqs[r].arg # reqs[r].payment_status THEN reqs[r].arg ELSE @,
            ![RaceOrderId].status =
                IF reqs[r].arg = "paid" /\ reqs[r].status = "pending"
                THEN "processing" ELSE @]
    /\ reqs' = [reqs EXCEPT ![r].pc = "done", ![r].code = 200]
    /\ resp' = [op |-> "payment", code |-> 200, order_id |-> RaceOrderId, arg |-> reqs[r].arg]
    /\ UNCHANGED order_items

\* update_order_status after the query: status is written when it differs
\* from the loaded value
update_order_status_commit(r) ==
    /\ reqs[r].pc = "read" /\ reqs[r].op = "status"
    /\ orders' = [orders EXCEPT
            ![RaceOrderId].status =
                IF reqs[r].arg # reqs[r].status THEN reqs[r].arg ELSE @]
    /\ reqs' = [reqs EXCEPT ![r].pc = "done", ![r].code = 200]
    /\ resp' = [op |-> "status", code |-> 200, order_id |-> RaceOrderId, arg |-> reqs[r].arg]
    /\ UNCHANGED order_items

\* one order is created, then requests on it run concurrently
RaceCreate ==
    /\ Len(orders) = 0
    /\ CreateOrder(LifecycleItemLists)
    /\ UNCHANGED reqs

ReadOrder == \E request \in RaceRequests : read_order(request)

RaceNext ==
    \/ RaceCreate
    \/ ReadOrder
    \/ \E r \in 1..Len(reqs) : cancel_order_commit(r)
    \/ \E r \in 1..Len(reqs) : update_payment_status_commit(r)
    \/ \E r \in 1..Len(reqs) : update_order_status_commit(r)

(* ======================= user service: tokens ========================== *)
\* number of token pairs handed out by the service
MaxIssues == 3
\* number of clock advances
MaxTicks == 2
\* number of requests of the user service between query and commit
MaxInFlight == 2

ACCESS_TOKEN_EXPIRE_MINUTES == 15
REFRESH_TOKEN_EXPIRE_DAYS == 7
MinutesPerDay == 1440
SECRET_KEY == "your-secret-key-change-in-production"

\* the clock is read in minutes; it advances by the lifetime of an access
\* token or by the rest of the lifetime of a refresh token
TickSteps ==
    { ACCESS_TOKEN_EXPIRE_MINUTES,
      REFRESH_TOKEN_EXPIRE_DAYS * MinutesPerDay - ACCESS_TOKEN_EXPIRE_MINUTES }

RECURSIVE InstantsWithin(_)
InstantsWithin(k) ==
    IF k = 0 THEN {0}
    ELSE LET P == InstantsWithin(k - 1) IN P \cup { t + d : t \in P, d \in TickSteps }

\* email is unique, so the table holds at most one row per address
Emails == {"a@x.io", "b@x.io"}
Phones == {"0700", "0711"}

\* a user id that no row has
NoSuchUser == Cardinality(Emails) + 1

RegisterInputs ==
    [email : Emails, phone : Phones, password : {"s3cret"},
     first_name : {"Ann"}, last_name : {"Lee"}]

LoginInputs == [email : Emails, password : {"s3cret", "guess"}]

(* ------------------------------ JWT ------------------------------------ *)
\* HS256: the signature binds the key and the claim set
Sign(payload, key) == [key |-> key, over |-> payload]

\* jwt.encode(to_encode, SECRET_KEY, algorithm=ALGORITHM)
jwt_encode(payload, key) ==
    [wellformed |-> TRUE, payload |-> payload, sig |-> Sign(payload, key)]

NoClaims == [user_id |-> 0, role |-> "-", type |-> "-", exp |-> 0]
NoToken == [wellformed |-> FALSE, payload |-> NoClaims, sig |-> Sign(NoClaims, "-")]
\* a string that is not three base64 segments
Malformed == [wellformed |-> FALSE, payload |-> NoClaims, sig |-> Sign(NoClaims, "garbage")]

\* jwt.decode(token, SECRET_KEY, algorithms=[ALGORITHM]) at clock time t:
\* the name of the exception it raises, or "ok"
jwt_decode(token, key, t) ==
    IF ~token.wellformed THEN "DecodeError"
    ELSE IF token.sig # Sign(token.payload, key) THEN "InvalidSignatureError"
    ELSE IF token.payload.exp <= t THEN "ExpiredSignatureError"
    ELSE "ok"

create_access_token(data, t) ==
    jwt_encode([user_id |-> data.user_id, role |-> data.role, type |-> "access",
                exp |-> t + ACCESS_TOKEN_EXPIRE_MINUTES], SECRET_KEY)

create_refresh_token(data, t) ==
    jwt_encode([user_id |-> data.user_id, role |-> "-", type |-> "refresh",
                exp |-> t + REFRESH_TOKEN_EXPIRE_DAYS * MinutesPerDay], SECRET_KEY)

\* verify_token: the payload, or the error response.  The second except clause
\* names jwt.JWTError, which the jwt module does not define: for an exception
\* other than ExpiredSignatureError evaluating the clause raises
\* AttributeError and the request ends as an internal server error.
verify_token(token, t) ==
    LET d == jwt_decode(token, SECRET_KEY, t) IN
    IF d = "ok" THEN [code |-> 200, detail |-> "-", payload |-> token.payload]
    ELSE IF d = "ExpiredSignatureError"
    THEN [code |-> 401, detail |-> "Token has expired", payload |-> NoClaims]
    ELSE [code |-> 500, detail |-> "Internal Server Error", payload |-> NoClaims]

UserExists(user_id) == user_id \in 1..Len(users)

\* mutant: the type claim is not looked at
get_current_user_NoTypeCheck(token, t) ==
    LET v == verify_token(token, t) IN
    IF v.code # 200 THEN [code |-> v.code, detail |-> v.detail, user_id |-> 0]
    ELSE IF v.payload.user_id = 0
    THEN [code |-> 401, detail |-> "Invalid token payload", user_id |-> 0]
    ELSE IF ~UserExists(v.payload.user_id)
    THEN [code |-> 404, detail |-> "User not found", user_id |-> 0]
    ELSE [code |-> 200, detail |-> "-", user_id |-> v.payload.user_id]

\* mutant: a token that was logged out is refused
get_current_user_Denylist(token, t) ==
    LET v == verify_token(token, t) IN
    IF v.code # 200 THEN [code |-> v.code, detail |-> v.detail, user_id |-> 0]
    ELSE IF token \in logged_out
    THEN [code |-> 401, detail |-> "Token revoked", user_id |-> 0]
    ELSE IF v.payload.type # "access"
    THEN [code |-> 401, detail |-> "Invalid token type", user_id |-> 0]
    ELSE IF v.payload.user_id = 0
    THEN [code |-> 401, detail |-> "Invalid token payload", user_id |-> 0]
    ELSE IF ~UserExists(v.payload.user_id)
    THEN [code |-> 404, detail |-> "User not found", user_id |-> 0]
    ELSE [code |-> 200, detail |-> "-", user_id |-> v.payload.user_id]

\* get_current_user: the bearer check of every protected endpoint
get_current_user(token, t) ==
    LET v == verify_token(token, t) IN
    IF v.code # 200 THEN [code |-> v.code, detail |-> v.detail, user_id |-> 0]
    ELSE IF v.payload.type # "access"
    THEN [code |-> 401, detail |-> "Invalid token type", user_id |-> 0]
    ELSE IF v.payload.user_id = 0
    THEN [code |-> 401, detail |-> "Invalid token payload", user_id |-> 0]
    ELSE IF ~UserExists(v.payload.user_id)
    THEN [code |-> 404, detail |-> "User not found", user_id |-> 0]
    ELSE [code |-> 200, detail |-> "-", user_id |-> v.payload.user_id]

\* bcrypt: a salted one-way hash; verification recomputes it with the stored salt
hash_password(password, salt) == [salt |-> salt, digest |-> <<salt, password>>]

verify_password(plain_password, hashed_password) ==
    hashed_password.digest = <<hashed_password.salt, plain_password>>

Salts == {"$2b$12$salt"}

\* mutant: the type claim is not looked at
refresh_check_NoTypeCheck(token, t) ==
    LET v == verify_token(token, t) IN
    IF v.code # 200 THEN [code |-> v.code, detail |-> v.detail, user_id |-> 0]
    ELSE IF ~UserExists(v.payload.user_id)
    THEN [code |-> 404, detail |-> "User not found", user_id |-> 0]
    ELSE [code |-> 200, detail |-> "-", user_id |-> v.payload.user_id]

\* the outcome of the checks of refresh_access_token, before any token is made
refresh_check(token, t) ==
    LET v == verify_token(token, t) IN
    IF v.code # 200 THEN [code |-> v.code, detail |-> v.detail, user_id |-> 0]
    ELSE IF v.payload.type # "refresh"
    THEN [code |-> 401, detail |-> "Invalid token type", user_id |-> 0]
    ELSE IF ~UserExists(v.payload.user_id)
    THEN [code |-> 404, detail |-> "User not found", user_id |-> 0]
    ELSE [code |-> 200, detail |-> "-", user_id |-> v.payload.user_id]

(* ----------------------------- state ----------------------------------- *)
\* uresp is the last request with its outcome: op, token, email, phone are the
\* request; code, detail, user_id, access, refresh the response.
NoUResp ==
    [op |-> "none", code |-> 0, detail |-> "-", token |-> NoToken, email |-> "-",
     phone |-> "-", user_id |-> 0, access |-> NoToken, refresh |-> NoToken]

UserInit ==
    /\ users = <<>>
    /\ now = 0
    /\ issued = {}
    /\ uresp = NoUResp

\* tokens a client can present: the ones handed out, access tokens with the
\* subject altered under the old signature, ones signed with another key, ones
\* signed with the key for a subject that has no row, and a malformed string
Tampered(tok) ==
    [tok EXCEPT !.payload.user_id = (tok.payload.user_id % Cardinality(Emails)) + 1]

OrphanTokens ==
    { create_access_token([user_id |-> NoSuchUser, role |-> "customer"], now),
      create_refresh_token([user_id |-> NoSuchUser], now) }

OtherKeyTokens ==
    { jwt_encode([user_id |-> 1, role |-> "admin", type |-> "access",
                  exp |-> now + ACCESS_TOKEN_EXPIRE_MINUTES], "another-key") }

PresentedTokens ==
    issued \cup { Tampered(tok) : tok \in { t \in issued : t.payload.type = "access" } }
           \cup OrphanTokens
           \cup OtherKeyTokens \cup {Malformed}

(* ---------------------------- handlers --------------------------------- *)
CanIssue(toks) == Cardinality(issued \cup toks) <= 2 * MaxIssues

\* mutant: only the email is looked up; the unique constraint on phone then
\* fails the commit
register_EmailOnly(user_data, salt) ==
    IF \E i \in 1..Len(users) : users[i].email = user_data.email
    THEN /\ uresp' = [NoUResp EXCEPT !.op = "register", !.code = 400,
                         !.detail = "User already exists",
                         !.email = user_data.email, !.phone = user_data.phone]
         /\ UNCHANGED <<users, now, issued>>
    ELSE IF \E i \in 1..Len(users) : users[i].phone = user_data.phone
    THEN /\ uresp' = [NoUResp EXCEPT !.op = "register", !.code = 500,
                         !.detail = "Internal Server Error",
                         !.email = user_data.email, !.phone = user_data.phone]
         /\ UNCHANGED <<users, now, issued>>
    ELSE LET id == Len(users) + 1
             access_token == create_access_token([user_id |-> id, role |-> "customer"], now)
             refresh_token == create_refresh_token([user_id |-> id], now)
         IN /\ CanIssue({access_token, refresh_token})
            /\ users' = Append(users,
                    [email |-> user_data.email,
                     phone |-> user_data.phone,
                     password_hash |-> hash_password(user_data.password, salt),
                     first_name |-> user_data.first_name,
                     last_name |-> user_data.last_name,
                     role |-> "customer"])
            /\ issued' = issued \cup {access_token, refresh_token}
            /\ uresp' = [NoUResp EXCEPT !.op = "register", !.code = 201,
                            !.email = user_data.email, !.phone = user_data.phone,
                            !.user_id = id, !.access = access_token,
                            !.refresh = refresh_token]
            /\ UNCHANGED now

\* POST /api/users/register
register(user_data, salt) ==
    IF \E i \in 1..Len(users) :
           users[i].email = user_data.email \/ users[i].phone = user_data.phone
    THEN /\ uresp' = [NoUResp EXCEPT !.op = "register", !.code = 400,
                         !.detail = "User already exists",
                         !.email = user_data.email, !.phone = user_data.phone]
         /\ UNCHANGED <<users, now, issued>>
    ELSE LET id == Len(users) + 1
             access_token == create_access_token([user_id |-> id, role |-> "customer"], now)
             refresh_token == create_refresh_token([user_id |-> id], now)
         IN /\ CanIssue({access_token, refresh_token})
            /\ users' = Append(users,
                    [email |-> user_data.email,
                     phone |-> user_data.phone,
                     password_hash |-> hash_password(user_data.password, salt),
                     first_name |-> user_data.first_name,
                     last_name |-> user_data.last_name,
                     role |-> "customer"])
            /\ issued' = issued \cup {access_token, refresh_token}
            /\ uresp' = [NoUResp EXCEPT !.op = "register", !.code = 201,
                            !.email = user_data.email, !.phone = user_data.phone,
                            !.user_id = id, !.access = access_token,
                            !.refresh = refresh_token]
            /\ UNCHANGED now

\* mutant: an email with no row is answered NotFound
login_TellsUnknownEmail(credentials) ==
    LET found == { i \in 1..Len(users) : users[i].email = credentials.email } IN
    IF found = {}
    THEN /\ uresp' = [NoUResp EXCEPT !.op = "login", !.code = 404,
                         !.detail = "User not found", !.email = credentials.email]
         /\ UNCHANGED <<users, now, issued>>
    ELSE IF \E i \in found :
               ~verify_password(credentials.password, users[i].password_hash)
    THEN /\ uresp' = [NoUResp EXCEPT !.op = "login", !.code = 401,
                         !.detail = "Invalid credentials", !.email = credentials.email]
         /\ UNCHANGED <<users, now, issued>>
    ELSE LET id == CHOOSE i \in found : TRUE
             access_token == create_access_token([user_id |-> id, role |-> users[id].role], now)
             refresh_token == create_refresh_token([user_id |-> id], now)
         IN /\ CanIssue({access_token, refresh_token})
            /\ issued' = issued \cup {access_token, refresh_token}
            /\ uresp' = [NoUResp EXCEPT !.op = "login", !.code = 200,
                            !.email = credentials.email, !.user_id = id,
                            !.access = access_token, !.refresh = refresh_token]
            /\ UNCHANGED <<users, now>>

\* POST /api/users/login
login(credentials) ==
    LET found == { i \in 1..Len(users) : users[i].email = credentials.email } IN
    IF found = {} \/ \E i \in found :
                        ~verify_password(credentials.password, users[i].password_hash)
    THEN /\ uresp' = [NoUResp EXCEPT !.op = "login", !.code = 401,
                         !.detail = "Invalid credentials", !.email = credentials.email]
         /\ UNCHANGED <<users, now, issued>>
    ELSE LET id == CHOOSE i \in found : TRUE
             access_token == create_access_token([user_id |-> id, role |-> users[id].role], now)
             refresh_token == create_refresh_token([user_id |-> id], now)
         IN /\ CanIssue({access_token, refresh_token})
            /\ issued' = issued \cup {access_token, refresh_token}
            /\ uresp' = [NoUResp EXCEPT !.op = "login", !.code = 200,
                            !.email = credentials.email, !.user_id = id,
                            !.access = access_token, !.refresh = refresh_token]
            /\ UNCHANGED <<users, now>>

\* GET /api/users/verify-token, a protected endpoint
verify_user_token(token) ==
    LET r == get_current_user(token, now) IN
    /\ uresp' = [NoUResp EXCEPT !.op = "verify", !.code = r.code, !.detail = r.detail,
                    !.token = token, !.user_id = r.user_id]
    /\ UNCHANGED <<users, now, issued>>

\* mutant: the new refresh token is made by create_access_token
refresh_access_token_AccessTwice(token) ==
    LET r == refresh_check(token, now) IN
    IF r.code # 200
    THEN /\ uresp' = [NoUResp EXCEPT !.op = "refresh", !.code = r.code,
                         !.detail = r.detail, !.token = token]
         /\ UNCHANGED <<users, now, issued>>
    ELSE LET id == r.user_id
             new_access_token == create_access_token([user_id |-> id, role |-> users[id].role], now)
             new_refresh_token == create_access_token([user_id |-> id, role |-> "-"], now)
         IN /\ CanIssue({new_access_token, new_refresh_token})
            /\ issued' = issued \cup {new_access_token, new_refresh_token}
            /\ uresp' = [NoUResp EXCEPT !.op = "refresh", !.code = 200,
                            !.token = token, !.user_id = id,
                            !.access = new_access_token, !.refresh = new_refresh_token]
            /\ UNCHANGED <<users, now>>

\* POST /api/users/refresh
refresh_access_token(token) ==
    LET r == refresh_check(token, now) IN
    IF r.code # 200
    THEN /\ uresp' = [NoUResp EXCEPT !.op = "refresh", !.code = r.code,
                         !.detail = r.detail, !.token = token]
         /\ UNCHANGED <<users, now, issued>>
    ELSE LET id == r.user_id
             new_access_token == create_access_token([user_id |-> id, role |-> users[id].role], now)
             new_refresh_token == create_refresh_token([user_id |-> id], now)
         IN /\ CanIssue({new_access_token, new_refresh_token})
            /\ issued' = issued \cup {new_access_token, new_refresh_token}
            /\ uresp' = [NoUResp EXCEPT !.op = "refresh", !.code = 200,
                            !.token = token, !.user_id = id,
                            !.access = new_access_token, !.refresh = new_refresh_token]
            /\ UNCHANGED <<users, now>>

\* POST /api/users/logout: the bearer check, then a message; nothing is stored
logout(token) ==
    LET r == get_current_user(token, now) IN
    /\ uresp' = [NoUResp EXCEPT !.op = "logout", !.code = r.code,
                    !.detail = IF r.code = 200 THEN "Logged out successfully" ELSE r.detail,
                    !.token = token, !.user_id = r.user_id]
    /\ UNCHANGED <<users, now, issued>>

Register == \E user_data \in RegisterInputs, salt \in Salts : register(user_data, salt)

\* the account whose sessions are followed
SessionRegisterInputs ==
    { u \in RegisterInputs : u.email = "a@x.io" /\ u.phone = "0700" }

SessionRegister ==
    \E user_data \in SessionRegisterInputs, salt \in Salts : register(user_data, salt)

Logout ==
    \E token \in issued :
        /\ logout(token)
        /\ logged_out' = IF uresp'.code = 200 THEN logged_out \cup {token} ELSE logged_out
        /\ UNCHANGED rotated

SessionVerify == \E token \in issued : verify_user_token(token)

\* the clock of the sessions advances to the last minute of an access token
\* and by the rest of the lifetime of a refresh token
SessionTickSteps ==
    { ACCESS_TOKEN_EXPIRE_MINUTES - 1,
      REFRESH_TOKEN_EXPIRE_DAYS * MinutesPerDay - ACCESS_TOKEN_EXPIRE_MINUTES }

RECURSIVE SessionInstants(_)
SessionInstants(k) ==
    IF k = 0 THEN {0}
    ELSE LET P == SessionInstants(k - 1) IN P \cup { t + d : t \in P, d \in SessionTickSteps }

SessionTick ==
    /\ \E d \in SessionTickSteps :
          /\ now + d \in SessionInstants(MaxTicks)
          /\ now' = now + d
    /\ UNCHANGED <<users, issued, uresp>>

SessionRefresh ==
    \E token \in issued :
        /\ refresh_access_token(token)
        /\ rotated' = IF uresp'.code = 200 THEN rotated \cup {token} ELSE rotated
        /\ UNCHANGED logged_out

Login == \E credentials \in LoginInputs : login(credentials)

VerifyUserToken == \E token \in PresentedTokens : verify_user_token(token)

RefreshTokens == \E token \in PresentedTokens : refresh_access_token(token)

\* time passes
Tick ==
    /\ \E d \in TickSteps :
          /\ now + d \in InstantsWithin(MaxTicks)
          /\ now' = now + d
    /\ UNCHANGED <<users, issued, uresp>>

UserNext ==
    \/ Register
    \/ Login
    \/ VerifyUserToken
    \/ RefreshTokens
    \/ Tick

(* ========== user service: concurrent register and update_profile ======= *)
\* Each request has its own session.  register queries for a row with the
\* email or the phone and later commits the INSERT; update_profile gets the
\* row of the bearer from get_current_user and later commits an UPDATE of the
\* attributes whose value it changed.  The unique constraints on email and
\* phone are checked by the store when a statement is committed.
\* ureqs is the bag of the requests in flight between their query and their
\* commit: loaded is the row as it was queried, update the UserUpdate body.
\* Of a response, uresp keeps the operation, the status and the detail.
UNSET == "<unset>"

\* UserUpdate bodies: dict(exclude_unset=True) keeps the fields other than UNSET
UpdateInputs == [first_name : {UNSET, "Zoe"}, last_name : {UNSET}, phone : {UNSET} \cup Phones]

NoUserData ==
    [email |-> "-", phone |-> "-", password |-> "-", first_name |-> "-", last_name |-> "-"]

NoRow ==
    [email |-> "-", phone |-> "-", password_hash |-> hash_password("-", "-"),
     first_name |-> "-", last_name |-> "-", role |-> "-"]

NoUpdate == [first_name |-> UNSET, last_name |-> UNSET, phone |-> UNSET]

NoRequest ==
    [op |-> "none", user_data |-> NoUserData, user_id |-> 0, loaded |-> NoRow,
     update |-> NoUpdate]

InFlight == BagToSet(ureqs)

Begin(q) == ureqs' = ureqs (+) SetToBag({q})

End(q) == ureqs' = ureqs (-) SetToBag({q})

ProfileInit == ureqs = EmptyBag

\* register up to the query for an existing user
register_check(user_data) ==
    /\ BagCardinality(ureqs) < MaxInFlight
    /\ IF \E i \in 1..Len(users) :
              users[i].email = user_data.email \/ users[i].phone = user_data.phone
       THEN /\ uresp' = [NoUResp EXCEPT !.op = "register", !.code = 400,
                            !.detail = "User already exists"]
            /\ UNCHANGED <<users, now, issued, ureqs>>
       ELSE /\ Begin([NoRequest EXCEPT !.op = "register", !.user_data = user_data])
            /\ UNCHANGED <<users, now, issued, uresp>>

\* register from db.add(db_user): the INSERT is committed unless a row with
\* the email or the phone has been committed since the query
register_commit(q, salt) ==
    /\ q.op = "register"
    /\ LET user_data == q.user_data IN
       IF \E i \in 1..Len(users) :
              users[i].email = user_data.email \/ users[i].phone = user_data.phone
       THEN \* IntegrityError, not caught
            /\ uresp' = [NoUResp EXCEPT !.op = "register", !.code = 500,
                            !.detail = "Internal Server Error"]
            /\ End(q)
            /\ UNCHANGED <<users, now, issued>>
       ELSE LET id == Len(users) + 1
                access_token == create_access_token([user_id |-> id, role |-> "customer"], now)
                refresh_token == create_refresh_token([user_id |-> id], now)
            IN /\ CanIssue({access_token, refresh_token})
               /\ users' = Append(users,
                       [email |-> user_data.email,
                        phone |-> user_data.phone,
                        password_hash |-> hash_password(user_data.password, salt),
                        first_name |-> user_data.first_name,
                        last_name |-> user_data.last_name,
                        role |-> "customer"])
               /\ issued' = issued \cup {access_token, refresh_token}
               /\ uresp' = [NoUResp EXCEPT !.op = "register", !.code = 201]
               /\ End(q)
               /\ UNCHANGED now

\* PUT /api/users/profile up to the end of get_current_user
update_profile_load(token, update_data) ==
    /\ BagCardinality(ureqs) < MaxInFlight
    /\ LET r == get_current_user(token, now) IN
       IF r.code # 200
       THEN /\ uresp' = [NoUResp EXCEPT !.op = "update", !.code = r.code,
                            !.detail = r.detail]
            /\ UNCHANGED <<users, now, issued, ureqs>>
       ELSE /\ Begin([NoRequest EXCEPT !.op = "update",
                                           !.user_id = r.user_id,
                                           !.loaded = users[r.user_id],
                                           !.update = update_data])
            /\ UNCHANGED <<users, now, issued, uresp>>

\* the value the UPDATE leaves in a column: the body's when it is set and
\* differs from the loaded one, else the one in the row
Written(supplied, loaded, current) ==
    IF supplied # UNSET /\ supplied # loaded THEN supplied ELSE current

\* mutant: phone has no unique constraint
update_profile_commit_NoUnique(q) ==
    /\ q.op = "update"
    /\ LET id == q.user_id
       IN /\ users' = [users EXCEPT
                  ![id].first_name = Written(q.update.first_name, q.loaded.first_name, @),
                  ![id].last_name = Written(q.update.last_name, q.loaded.last_name, @),
                  ![id].phone = Written(q.update.phone, q.loaded.phone, @)]
          /\ uresp' = [NoUResp EXCEPT !.op = "update", !.code = 200]
          /\ End(q)
          /\ UNCHANGED <<now, issued>>

\* update_profile from the setattr loop to the commit
update_profile_commit(q) ==
    /\ q.op = "update"
    /\ LET id == q.user_id
           phone == Written(q.update.phone, q.loaded.phone, users[id].phone)
       IN IF /\ phone # users[id].phone
             /\ \E j \in 1..Len(users) : j # id /\ users[j].phone = phone
          THEN \* IntegrityError, not caught
               /\ uresp' = [NoUResp EXCEPT !.op = "update", !.code = 500,
                               !.detail = "Internal Server Error"]
               /\ End(q)
               /\ UNCHANGED <<users, now, issued>>
          ELSE /\ users' = [users EXCEPT
                       ![id].first_name = Written(q.update.first_name, q.loaded.first_name, @),
                       ![id].last_name = Written(q.update.last_name, q.loaded.last_name, @),
                       ![id].phone = phone]
               /\ uresp' = [NoUResp EXCEPT !.op = "update", !.code = 200]
               /\ End(q)
               /\ UNCHANGED <<now, issued>>

RegisterCheck == \E user_data \in RegisterInputs : register_check(user_data)

RegisterCommit == \E q \in InFlight, salt \in Salts : register_commit(q, salt)

UpdateProfileLoad ==
    \E token \in issued, update_data \in UpdateInputs :
        update_profile_load(token, update_data)

UpdateProfileCommit == \E q \in InFlight : update_profile_commit(q)

ProfileNext ==
    \/ RegisterCheck
    \/ RegisterCommit
    \/ UpdateProfileLoad
    \/ UpdateProfileCommit

(* ------------------------- specifications ------------------------------ *)
HistoryInit ==
    /\ logged_out = {}
    /\ rotated = {}

Init == OrderInit /\ UserInit /\ HistoryInit /\ TxInit /\ StatsInit /\ RaceInit /\ ProfileInit

LifecycleSpec == Init /\ [][LifecycleNext /\ UNCHANGED <<uvars, xvars, stats>>]_vars

TotalsSpec == Init /\ [][TotalsNext /\ UNCHANGED <<uvars, xvars, stats>>]_vars

UserSpec == Init /\ [][UserNext /\ UNCHANGED <<ovars, xvars, stats>>]_vars

\* the sessions of one account: its tokens are used, rotated and logged out
SessionNext ==
    \/ SessionRegister /\ UNCHANGED hvars
    \/ Logout
    \/ SessionVerify /\ UNCHANGED hvars
    \/ SessionRefresh
    \/ SessionTick /\ UNCHANGED hvars

SessionSpec == Init /\ [][SessionNext /\ UNCHANGED <<ovars, cvars, stats, reqs, ureqs>>]_vars

TxSpec == Init /\ [][TxNext /\ UNCHANGED <<uvars, hvars, stats, reqs, ureqs>>]_vars

StatsSpec == Init /\ [][StatsNext /\ UNCHANGED <<uvars, xvars>>]_vars

TrackingSpec == Init /\ [][TrackingNext /\ UNCHANGED <<uvars, xvars, stats>>]_vars

RaceSpec == Init /\ [][RaceNext /\ UNCHANGED <<uvars, hvars, cvars, stats, ureqs>>]_vars

ProfileSpec == Init /\ [][ProfileNext /\ UNCHANGED <<ovars, hvars, cvars, stats, reqs>>]_vars

(* ======================= order lifecycle claims ======================== *)
LegalTransitions ==
    { <<"pending", "processing">>, <<"processing", "completed">>,
      <<"pending", "cancelled">>, <<"processing", "cancelled">> }

\* C1: an order starts as pending and every change of an order's status is one
\* of pending->processing, processing->completed, pending->cancelled,
\* processing->cancelled (so cancelled and completed are terminal).
C1_StatusTransitionsLegal ==
    [][ /\ \A id \in 1..Len(orders) :
              orders'[id].status # orders[id].status
                  => <<orders[id].status, orders'[id].status>> \in LegalTransitions
        /\ \A id \in (Len(orders) + 1)..Len(orders') :
              orders'[id].status = "pending" ]_vars

\* C2: CancelOrder on an existing order answers 200 and sets status to
\* cancelled exactly when the status is pending or processing; from any other
\* status it answers 400 and changes no order; for a missing id it answers 404
\* and changes no order.  A successful cancel changes nothing but that status.
C2_CancelOrder ==
    [][ resp'.op = "cancel" =>
          LET id == resp'.order_id IN
          IF id \notin 1..Len(orders)
          THEN resp'.code = 404 /\ orders' = orders /\ order_items' = order_items
          ELSE IF orders[id].status \in {"pending", "processing"}
          THEN /\ resp'.code = 200
               /\ orders' = [orders EXCEPT ![id].status = "cancelled"]
               /\ order_items' = order_items
          ELSE resp'.code = 400 /\ orders' = orders /\ order_items' = order_items
      ]_vars

C2_Witness ==
    /\ resp.op = "cancel"
    /\ resp.code = 400
    /\ resp.order_id \in 1..Len(orders)
    /\ orders[resp.order_id].status = "completed"
    /\ orders[resp.order_id].payment_status = "paid"

\* C3: UpdatePaymentStatus on an existing order stores the new payment_status;
\* the status becomes processing when the new payment_status is paid and the
\* status was pending, and is left as it was in every other case.
C3_PaymentAutoAdvance ==
    [][ (resp'.op = "payment" /\ resp'.order_id \in 1..Len(orders)) =>
          LET id == resp'.order_id IN
          /\ resp'.code = 200
          /\ orders'[id].payment_status = resp'.arg
          /\ orders'[id].status =
                IF resp'.arg = "paid" /\ orders[id].status = "pending"
                THEN "processing" ELSE orders[id].status
          /\ \A other \in 1..Len(orders) : other # id => orders'[other] = orders[other]
      ]_vars

C3_Witness ==
    /\ resp.op = "payment"
    /\ resp.code = 200
    /\ resp.arg = "paid"
    /\ orders[resp.order_id].status = "processing"
    /\ orders[resp.order_id].payment_status = "paid"
    /\ \E other \in 1..Len(orders) :
          orders[other].status = "completed" /\ orders[other].payment_status = "paid"

RECURSIVE RowTotal(_)
RowTotal(rows) ==
    IF rows = <<>> THEN 0
    ELSE RowTotal(Tail(rows)) + Head(rows).quantity * Head(rows).price

\* C4: every order's total_amount is the sum of price x quantity over its item
\* rows, and no step changes the total_amount or the item rows of an order
\* that already exists.
C4_TotalIsSumAndFrozen ==
    /\ [](\A id \in 1..Len(orders) : orders[id].total_amount = RowTotal(ItemsOf(id)))
    /\ [][ \A id \in 1..Len(orders) :
              /\ id \in 1..Len(orders')
              /\ orders'[id].total_amount = orders[id].total_amount
              /\ SelectSeq(order_items', LAMBDA r : r.order_id = id) = ItemsOf(id) ]_vars

\* the example of the specification ({qty 2, 10.0}, {qty 1, 5.5} gives 25.5),
\* on an order that has since been paid and cancelled
C4_Witness ==
    \E id \in 1..Len(orders) :
        /\ Len(ItemsOf(id)) = 2
        /\ ItemsOf(id)[1].quantity = 2 /\ ItemsOf(id)[1].price = 20
        /\ ItemsOf(id)[2].quantity = 1 /\ ItemsOf(id)[2].price = 11
        /\ orders[id].total_amount = 51
        /\ orders[id].status = "cancelled"
        /\ orders[id].payment_status = "paid"

\* C5: a CreateOrder request with an empty item list or with an item of
\* quantity < 1 is rejected: no stored order has no item row, and no stored
\* item row has quantity < 1.
C5_CreateRejectsInvalidItems ==
    /\ \A id \in 1..Len(orders) : Len(ItemsOf(id)) >= 1
    /\ \A i \in 1..Len(order_items) : order_items[i].quantity >= 1

(* ========================= user service claims ========================= *)
\* a step of a request handler (uresp' is then its request and outcome), as
\* opposed to a step of the clock, which leaves uresp as it was
Handled(op) == now' = now /\ uresp'.op = op

\* C6: Register with an email or a phone that a user row already has answers
\* Conflict (HTTP 400) and leaves the user rows as they are; Register with a
\* fresh email and a fresh phone answers 201 and adds exactly one row, with the
\* email and phone of the request and role customer.
C6_RegisterConflict ==
    [][ Handled("register") =>
          IF \E i \in 1..Len(users) :
                 users[i].email = uresp'.email \/ users[i].phone = uresp'.phone
          THEN uresp'.code = 400 /\ users' = users
          ELSE /\ uresp'.code = 201
               /\ Len(users') = Len(users) + 1
               /\ SubSeq(users', 1, Len(users)) = users
               /\ users'[Len(users')].email = uresp'.email
               /\ users'[Len(users')].phone = uresp'.phone
               /\ users'[Len(users')].role = "customer"
      ]_vars

\* a conflict on the phone alone
C6_Witness ==
    /\ uresp.op = "register"
    /\ uresp.code = 400
    /\ \E i \in 1..Len(users) : users[i].phone = uresp.phone
    /\ \A i \in 1..Len(users) : users[i].email # uresp.email

\* C7: the bearer check answers Unauthorized (HTTP 401) for every token handed
\* out by Register, Login or RefreshTokens that is presented at or after its
\* expiry instant, and for every such token whose type claim is refresh.
C7_ExpiredOrRefreshRejected ==
    [][ (Handled("verify") /\ uresp'.token \in issued) =>
          ( (uresp'.token.payload.exp <= now \/ uresp'.token.payload.type = "refresh")
                => uresp'.code = 401 )
      ]_vars

\* an access token presented exactly at its expiry instant
C7_Witness ==
    /\ uresp.op = "verify"
    /\ uresp.code = 401
    /\ uresp.token \in issued
    /\ uresp.token.payload.type = "access"
    /\ uresp.token.payload.exp = now

\* C8: the bearer check answers Unauthorized (HTTP 401) for a malformed token
\* and for a token whose signature is invalid.
C8_DecodeFailureIsUnauthorized ==
    ( /\ uresp.op = "verify"
      /\ \/ ~uresp.token.wellformed
         \/ uresp.token.sig # Sign(uresp.token.payload, SECRET_KEY) )
        => uresp.code = 401

\* C9: RefreshTokens accepts every unexpired refresh token it, Register or
\* Login handed out and answers with a new pair; as long as the new access
\* token is unexpired the bearer check accepts it and resolves it to the user
\* of the presented token, and as long as the new refresh token is unexpired
\* RefreshTokens accepts it for that user.
C9_RefreshRoundTrip ==
    /\ []( (uresp.op = "refresh" /\ uresp.code = 200) =>
             /\ uresp.user_id = uresp.token.payload.user_id
             /\ uresp.access \in issued /\ uresp.refresh \in issued
             /\ now < uresp.access.payload.exp =>
                   get_current_user(uresp.access, now) =
                       [code |-> 200, detail |-> "-", user_id |-> uresp.user_id]
             /\ now < uresp.refresh.payload.exp =>
                   refresh_check(uresp.refresh, now) =
                       [code |-> 200, detail |-> "-", user_id |-> uresp.user_id] )
    /\ [][ /\ ( /\ Handled("refresh")
                /\ uresp'.token \in issued
                /\ uresp'.token.payload.type = "refresh"
                /\ now < uresp'.token.payload.exp )
                 => (uresp'.code = 200 /\ uresp'.user_id = uresp'.token.payload.user_id)
           /\ ( /\ Handled("verify")
                /\ uresp'.token \in issued
                /\ uresp'.token.payload.type = "access"
                /\ now < uresp'.token.payload.exp )
                 => (uresp'.code = 200 /\ uresp'.user_id = uresp'.token.payload.user_id)
         ]_vars

\* a rotation of a refresh token that was itself handed out after the clock
\* had advanced, at a later instant still
C9_Witness ==
    /\ uresp.op = "refresh"
    /\ uresp.code = 200
    /\ uresp.token.payload.exp > REFRESH_TOKEN_EXPIRE_DAYS * MinutesPerDay
    /\ uresp.refresh.payload.exp > uresp.token.payload.exp
    /\ now < uresp.access.payload.exp

\* a token that decodes with the key of the service, read at clock time t
Decodes(token) == token.wellformed /\ token.sig = Sign(token.payload, SECRET_KEY)

RefreshShouldFail(token, t) ==
    \/ token.payload.type # "refresh"
    \/ token.payload.exp <= t
    \/ ~UserExists(token.payload.user_id)

\* C10 as stated: RefreshTokens answers Unauthorized (HTTP 401) and hands out
\* no token when the type claim is not refresh, when the token is expired, and
\* when the subject user has no row.
C10_RefreshFailsUnauthorized ==
    [][ ( /\ Handled("refresh")
          /\ Decodes(uresp'.token)
          /\ RefreshShouldFail(uresp'.token, now) )
            => /\ uresp'.code = 401
               /\ issued' = issued
               /\ uresp'.access = NoToken /\ uresp'.refresh = NoToken
      ]_vars

\* C10 amended: for a token signed with the key of the service, RefreshTokens
\* hands out no token and answers Unauthorized (HTTP 401) when the token is
\* expired or its type claim is not refresh, and NotFound (HTTP 404) when the
\* token is an unexpired refresh token whose subject user has no row.
C10_RefreshFails ==
    [][ ( /\ Handled("refresh")
          /\ Decodes(uresp'.token)
          /\ RefreshShouldFail(uresp'.token, now) )
            => /\ uresp'.code =
                     IF \/ uresp'.token.payload.exp <= now
                        \/ uresp'.token.payload.type # "refresh"
                     THEN 401 ELSE 404
               /\ issued' = issued
               /\ users' = users
               /\ uresp'.access = NoToken /\ uresp'.refresh = NoToken
      ]_vars

\* an access token of an existing user presented to RefreshTokens
C10_Witness ==
    /\ uresp.op = "refresh"
    /\ uresp.code = 401
    /\ uresp.detail = "Invalid token type"
    /\ uresp.token \in issued
    /\ uresp.token.payload.type = "access"
    /\ uresp.token.payload.exp > now

(* ------------------------------- C11 ----------------------------------- *)
\* what a client is sent back: uresp without the echoed request
Outcome(r) ==
    [code |-> r.code, detail |-> r.detail, user_id |-> r.user_id,
     access |-> r.access, refresh |-> r.refresh]

UnknownEmail(credentials) ==
    \A i \in 1..Len(users) : users[i].email # credentials.email

WrongPassword(credentials) ==
    \E i \in 1..Len(users) :
        /\ users[i].email = credentials.email
        /\ users[i].password_hash # hash_password(credentials.password,
                                                   users[i].password_hash.salt)

\* C11: Login with a wrong password for an existing email and Login with an
\* email that has no row are sent back one and the same outcome, Unauthorized
\* (HTTP 401) with the detail "Invalid credentials" and no token, and neither
\* changes a user row.
C11_LoginFailuresIndistinguishable ==
    [][ Handled("login")
          => \A credentials \in LoginInputs :
                ( /\ credentials.email = uresp'.email
                  /\ WrongPassword(credentials) \/ UnknownEmail(credentials)
                  /\ login(credentials) )
                    => /\ Outcome(uresp') = Outcome([NoUResp EXCEPT !.code = 401,
                                                       !.detail = "Invalid credentials"])
                       /\ users' = users
                       /\ issued' = issued
      ]_vars

\* a wrong password for a registered email was refused while another email
\* is still unknown
C11_Witness ==
    /\ uresp.op = "login"
    /\ uresp.code = 401
    /\ \E i \in 1..Len(users) : users[i].email = uresp.email
    /\ \E e \in Emails : \A i \in 1..Len(users) : users[i].email # e

(* ------------------------------- C12 ----------------------------------- *)
\* C12: Logout changes no server state, and no later step revokes a token:
\* an unexpired access token that was handed out is accepted by the bearer
\* check after a Logout with it, at every instant before its expiry, and an
\* unexpired refresh token is accepted by RefreshTokens after the Logout and
\* after it has itself been rotated.
C12_LogoutRevokesNothing ==
    [][ /\ Handled("logout") => (users' = users /\ issued' = issued)
        /\ ( /\ Handled("verify") \/ Handled("logout")
             /\ uresp'.token \in logged_out
             /\ uresp'.token.payload.exp > now )
               => (uresp'.code = 200 /\ uresp'.user_id = uresp'.token.payload.user_id)
        /\ ( /\ Handled("refresh")
             /\ uresp'.token \in issued
             /\ uresp'.token.payload.type = "refresh"
             /\ uresp'.token.payload.exp > now
             /\ logged_out # {} \/ uresp'.token \in rotated )
               => ( /\ uresp'.code = 200
                    /\ uresp'.access # NoToken /\ uresp'.refresh # NoToken )
      ]_vars

\* a token that was logged out is accepted at a later instant, after a
\* refresh token has been rotated
C12_Witness ==
    /\ uresp.op = "verify"
    /\ uresp.code = 200
    /\ uresp.token \in logged_out
    /\ uresp.token.payload.exp - ACCESS_TOKEN_EXPIRE_MINUTES < now
    /\ rotated # {}

(* ------------------------------- C13 ----------------------------------- *)
\* the item rows complete the order row: they add up to its total_amount
\* (every item of the requests has a positive line total)
CompleteOrder(row, item_rows) == calculate_total(item_rows) = row.total_amount

ObservedItems(order_id) == SelectSeq(obs.items, LAMBDA r : r.order_id = order_id)

\* C13: order creation is atomic for concurrent readers: every order row in
\* the committed tables has its complete item list; GetOrder, ListOrders and
\* TrackOrder return an order only with all of its items, and GetStats counts
\* only such orders; when CreateOrder fails part-way the committed tables are
\* what they were when the request began, so no row of it remains.
C13_CreateOrderAtomic ==
    /\ \A i \in 1..Len(orders) : CompleteOrder(orders[i], ItemsOf(i))
    /\ \A i \in 1..Len(order_items) : OrderExists(order_items[i].order_id)
    /\ (obs.pc = "done" /\ obs.op \in {"get", "track", "list"})
          => \A k \in 1..Len(obs.rows) :
                CompleteOrder(obs.rows[k][2], ObservedItems(obs.rows[k][1]))
    /\ obs.op = "stats"
          => obs.total_orders <=
                Cardinality({ i \in 1..Len(orders) : CompleteOrder(orders[i], ItemsOf(i)) })
    /\ tx.pc = "rolled_back"
          => (Len(orders) = tx.base_orders /\ Len(order_items) = tx.base_items)

\* a reader that queried the order rows while a request with two items was
\* between its flush and its commit has loaded the items after the commit
C13_Witness ==
    /\ obs.pc = "done"
    /\ obs.op = "list"
    /\ tx.pc = "committed"
    /\ Len(orders) = 2
    /\ Len(obs.rows) = 1
    /\ Len(ItemsOf(2)) >= 1
    /\ Len(obs.items) = Len(ItemsOf(1))

(* ------------------------------- C14 ----------------------------------- *)
RECURSIVE PaidRevenue(_)
PaidRevenue(n) ==
    IF n = 0 THEN 0
    ELSE PaidRevenue(n - 1)
         + (IF orders[n].payment_status = "paid" THEN orders[n].total_amount ELSE 0)

OrdersWithStatus(status) == { i \in 1..Len(orders) : orders[i].status = status }

\* C14: GetStats returns as totalRevenue the sum of total_amount over exactly
\* the orders whose payment status is paid, whatever their status (a cancelled
\* paid order counts) and 0 when none is paid, and as totalOrders, pending,
\* processing and completed the numbers of all orders and of the orders with
\* that status.
C14_StatsAreSumsAndCounts ==
    stats # NoStats
      => /\ stats.total_revenue = PaidRevenue(Len(orders))
         /\ stats.total_orders = Len(orders)
         /\ stats.pending_orders = Cardinality(OrdersWithStatus("pending"))
         /\ stats.processing_orders = Cardinality(OrdersWithStatus("processing"))
         /\ stats.completed_orders = Cardinality(OrdersWithStatus("completed"))

\* the summary of a table with a paid cancelled order and an unpaid order
C14_Witness ==
    /\ stats # NoStats
    /\ stats.total_revenue > 0
    /\ \E i \in 1..Len(orders) :
          /\ orders[i].status = "cancelled"
          /\ orders[i].payment_status = "paid"
          /\ orders[i].total_amount > 0
    /\ \E i \in 1..Len(orders) :
          /\ orders[i].payment_status # "paid"
          /\ orders[i].total_amount > 0

(* ------------------------------- C15 ----------------------------------- *)
Holders(tn) ==
    { i \in 1..Len(orders) : orders[i].tracking_number = generate_tracking_number(tn) }

\* C15: whatever values the generator returns, one already stored included,
\* no two stored orders share a tracking number; TrackOrder for a tracking
\* number answers with the one order that has it, and with NotFound (HTTP 404)
\* when none has it.
C15_TrackingNumbersUnique ==
    /\ [](\A i, j \in 1..Len(orders) :
             orders[i].tracking_number = orders[j].tracking_number => i = j)
    /\ [][ \A tn \in TrackingNumbers(Len(orders)) :
             (track_order(tn) /\ resp'.op = "track")
                => /\ Cardinality(Holders(tn)) <= 1
                   /\ Holders(tn) = {} => resp'.code = 404
                   /\ Holders(tn) # {} => (resp'.code = 200 /\ Holders(tn) = {resp'.order_id})
         ]_vars

\* the generator has returned the tracking number of a stored order
C15_Witness ==
    /\ resp.op = "create"
    /\ resp.code = 500
    /\ Len(orders) >= 1

(* ------------------------------- C16 ----------------------------------- *)
\* the request that commits in this step
Commits(r) == r \in 1..Len(reqs) /\ reqs[r].pc = "read" /\ reqs'[r].pc = "done"

CancellationCommitted ==
    \E r \in 1..Len(reqs) :
        reqs[r].op = "cancel" /\ reqs[r].pc = "done" /\ reqs[r].code = 200

\* C16 as stated: under any interleaving of CancelOrder, UpdatePaymentStatus
\* ("paid") and UpdateStatus on one order, once a cancellation has been
\* committed the status stays cancelled, and the commit of a CancelOrder never
\* replaces a status of completed.
C16_CancellationFinal ==
    /\ [](CancellationCommitted => orders[RaceOrderId].status = "cancelled")
    /\ [][ \A r \in 1..Len(reqs) :
             (Commits(r) /\ reqs[r].op = "cancel"
                 /\ orders[RaceOrderId].status = "completed")
                => orders'[RaceOrderId].status = "completed"
         ]_vars

\* C16 amended: the requests are not serialised and the last commit wins.  The
\* commit of each request writes what it decided from the row it loaded:
\* CancelOrder writes cancelled and answers 200 when the status it loaded was
\* pending or processing, and otherwise answers 400 and writes nothing;
\* UpdatePaymentStatus("paid") writes processing when the status it loaded was
\* pending and otherwise leaves the status as it is; UpdateStatus(s) writes s
\* when s differs from the status it loaded.  The status in the row at the
\* time of the commit is not looked at.
C16_LastCommitWins ==
    [][ \A r \in 1..Len(reqs) :
          Commits(r)
            => LET q == reqs[r]
                   current == orders[RaceOrderId].status
                   written == orders'[RaceOrderId].status
               IN /\ q.op = "cancel"
                       => IF q.status \in {"pending", "processing"}
                          THEN written = "cancelled" /\ reqs'[r].code = 200
                          ELSE written = current /\ reqs'[r].code = 400
                  /\ q.op = "payment"
                       => /\ written = IF q.status = "pending" THEN "processing" ELSE current
                          /\ orders'[RaceOrderId].payment_status = "paid"
                  /\ q.op = "status"
                       => written = IF q.arg # q.status THEN q.arg ELSE current
      ]_vars

\* a cancellation was committed, and the commit of a payment request that had
\* loaded the row before it has put the order back to processing
C16_Witness ==
    /\ CancellationCommitted
    /\ orders[RaceOrderId].status = "processing"
    /\ resp.op = "payment"

(* ------------------------------- C17 ----------------------------------- *)
EmailsAndPhonesUnique ==
    \A i, j \in 1..Len(users) :
        (users[i].email = users[j].email \/ users[i].phone = users[j].phone) => i = j

\* the update_profile request that commits in this step
CommitsUpdate(q) == q.op = "update" /\ ureqs' = ureqs (-) SetToBag({q})

\* the rows other than id, and the columns of row id that the body leaves
\* unset, are the same after the step
OnlySuppliedFields(id, update) ==
    /\ Len(users') = Len(users)
    /\ \A j \in 1..Len(users) : j # id => users'[j] = users[j]
    /\ users'[id].email = users[id].email
    /\ users'[id].password_hash = users[id].password_hash
    /\ users'[id].role = users[id].role
    /\ update.first_name = UNSET => users'[id].first_name = users[id].first_name
    /\ update.last_name = UNSET => users'[id].last_name = users[id].last_name
    /\ update.phone = UNSET => users'[id].phone = users[id].phone

HeldByAnother(id, phone) ==
    \E j \in 1..Len(users) : j # id /\ users[j].phone = phone

\* C17 as stated: under any interleaving of Register and UpdateProfile no two
\* rows share an email or a phone, UpdateProfile changes only the supplied
\* fields, and an UpdateProfile whose body sets phone to a value that another
\* row holds does not commit and leaves every row unchanged.
C17_ProfileUpdateKeepsUnique ==
    /\ []EmailsAndPhonesUnique
    /\ [][ \A q \in InFlight :
             CommitsUpdate(q)
               => /\ OnlySuppliedFields(q.user_id, q.update)
                  /\ (q.update.phone # UNSET /\ HeldByAnother(q.user_id, q.update.phone))
                        => (users' = users /\ uresp'.code # 200)
         ]_vars

\* C17 amended: under any interleaving of Register and UpdateProfile no two
\* rows share an email or a phone, and UpdateProfile changes only supplied
\* fields.  An UpdateProfile whose body sets phone to a value other than the
\* one it loaded, held by another row when it commits, fails (HTTP 500) and
\* leaves every row unchanged; a body whose phone is the one the request
\* loaded writes no phone, and commits its other fields whoever holds that
\* phone by then.
C17_ChangedPhoneKeepsUnique ==
    /\ []EmailsAndPhonesUnique
    /\ [][ \A q \in InFlight :
             CommitsUpdate(q)
               => /\ OnlySuppliedFields(q.user_id, q.update)
                  /\ ( /\ q.update.phone \notin {UNSET, q.loaded.phone}
                       /\ HeldByAnother(q.user_id, q.update.phone) )
                        => (users' = users /\ uresp'.code = 500)
                  /\ q.update.phone \in {UNSET, q.loaded.phone}
                        => ( /\ uresp'.code = 200
                             /\ users'[q.user_id].phone = users[q.user_id].phone )
         ]_vars

\* an update of the phone to the one of the other row has been refused
C17_Witness ==
    /\ uresp.op = "update"
    /\ uresp.code = 500
    /\ Len(users) = 2
    /\ \E q \in InFlight : q.op = "register"

====
